---- MODULE Spec2Model ----
(***************************************************************************)
(* A model of streetviewdownloader's PBF reader                            *)
(* (src/src/streetviewdownloader/pbffilereader.py): the block reader on    *)
(* one file handle, the primitive decoder, the way clipper and the         *)
(* two-phase street_network computation.                                   *)
(*                                                                         *)
(* Python exceptions are values: every modelled function returns a record  *)
(* whose field "raised" is NoError or the name of the exception that left  *)
(* the function.  Coordinates are kept as the integer numerator            *)
(* raw * granularity + offset; the division by 10^9 is the same for all.   *)
(***************************************************************************)
EXTENDS Integers, Sequences, FiniteSets, TLC

(*************************** bounds of the model ***************************)
\* primitive blocks in a file, besides the header block
MaxBlocks == 2
\* accesses to street_network on one reader
MaxAccesses == 2
\* the pool sizes tried (multiprocessing.cpu_count() + 1 of the machine)
MaxWorkers == 3
\* bytes of a BlobHeader record and of a Blob in the files of the model
HdrLen == 1
PayloadLen == 2
\* _geometries_for_ways on its own: node ids, ways in a call, ids in a way
MaxNode == 3
MaxGeomWays == 2
MaxWayLen == 3
\* _parse_ways on its own: ways in a primitive group
MaxWays == 2
\* _parse_primitive_block on its own: primitive groups in a block
MaxGroups == 2
\* threads that iterate over primitive_blocks of one reader at the same time
NumConsumers == 2
MaxDense == 3
MaxStreets == 2

(**************************** program constants ****************************)
\* self._file.read(4): the length prefix of a block
PrefixLen == 4
\* positional arguments the source passes to _clip_nodes_to_polygons
ClipArgsPassed == 1
\* parameters of _clip_nodes_to_polygons (nodes, clip_polygon)
ClipArgsRequired == 2
\* positional arguments _parse_primitive_block passes to _parse_nodes
ParseNodesArgsPassed == 2
\* parameters of _parse_nodes
ParseNodesArgsRequired == 5

NoError == "none"

(******************************** helpers **********************************)
Min(a, b) == IF a < b THEN a ELSE b

Range(s) == {s[i] : i \in 1..Len(s)}

\* pandas.Series.cumsum / itertools.accumulate: running sums of a sequence
RECURSIVE cumsum(_)
cumsum(s) ==
    IF Len(s) = 0 THEN <<>>
    ELSE LET front == cumsum(SubSeq(s, 1, Len(s) - 1))
         IN  Append(front, (IF Len(front) = 0 THEN 0 ELSE front[Len(front)]) + s[Len(s)])

\* list.index(x): the 0-based position of the first x, -1 standing for ValueError
index(s, x) ==
    IF \E i \in 1..Len(s) : s[i] = x
    THEN (CHOOSE i \in 1..Len(s) : s[i] = x /\ \A j \in 1..(i - 1) : s[j] # x) - 1
    ELSE -1

(***************************** the file's bytes ****************************)
\* One block on disk: the 4-byte big-endian length of the BlobHeader record,
\* the BlobHeader record (hlen bytes, announcing datasize), the Blob (datasize
\* bytes).  A payload byte carries the number of the block it belongs to.
BlockBytes(b, n) ==
    <<0, 0, 0, b.hlen>>
    \o [i \in 1..b.hlen |-> IF i = 1 THEN b.dsize ELSE 0]
    \o [i \in 1..b.dsize |-> n]

RECURSIVE FileBytesUpTo(_, _)
FileBytesUpTo(blocks, n) ==
    IF n = 0 THEN <<>> ELSE FileBytesUpTo(blocks, n - 1) \o BlockBytes(blocks[n], n)

FileBytes(blocks) == FileBytesUpTo(blocks, Len(blocks))

\* offset of the first byte after block n (0 for n = 0)
RECURSIVE BlockEnd(_, _)
BlockEnd(blocks, n) ==
    IF n = 0 THEN 0
    ELSE BlockEnd(blocks, n - 1) + PrefixLen + blocks[n].hlen + blocks[n].dsize

BlockBoundaries(blocks) == {BlockEnd(blocks, n) : n \in 0..Len(blocks)}

\* file.read(n) at position cur of a file holding bytes: the bytes and the new position
FileRead(bytes, cur, n) ==
    LET to == Min(cur + n, Len(bytes))
    IN  [data |-> SubSeq(bytes, cur + 1, to), from |-> cur, cursor |-> to]

\* struct.unpack("!L", buffer)[0]
Unpack(buffer) ==
    buffer[1] * 16777216 + buffer[2] * 65536 + buffer[3] * 256 + buffer[4]

\* BlobHeader.ParseFromString(data) of a read that asked for want bytes: a record
\* cut short does not decode
ParseBlobHeader(data, want) ==
    IF Len(data) = want /\ want > 0
    THEN [raised |-> NoError, datasize |-> data[1]]
    ELSE [raised |-> "DecodeError", datasize |-> 0]

\* Blob.ParseFromString(data) and zlib.decompress(payload.zlib_data): the number
\* of the block the payload belongs to; a payload cut short, or mixed from two
\* blocks, does not decode or decompress
ParseBlob(data, want) ==
    IF Len(data) = want /\ want > 0 /\ \A i \in 1..Len(data) : data[i] = data[1]
    THEN [raised |-> NoError, block |-> data[1]]
    ELSE [raised |-> "DecodeError", block |-> 0]

\* a read that never takes an empty buffer for the end of the file
IsEofNever(buffer) == FALSE

\* if len(buffer) == 0: raise StopIteration
IsEof(buffer) == Len(buffer) = 0

\* PbfFileReader._read_next_block on the file (bytes) at position cur
_read_next_block(bytes, cur) ==
    LET buffer == FileRead(bytes, cur, PrefixLen)
    IN  IF IsEof(buffer.data)
        THEN [raised |-> "StopIteration", cursor |-> buffer.cursor, block |-> 0]
        ELSE IF Len(buffer.data) # PrefixLen
        THEN [raised |-> "struct.error", cursor |-> buffer.cursor, block |-> 0]
        ELSE LET header_length == Unpack(buffer.data)
                 hdata == FileRead(bytes, buffer.cursor, header_length)
                 header == ParseBlobHeader(hdata.data, header_length)
             IN  IF header.raised # NoError
                 THEN [raised |-> header.raised, cursor |-> hdata.cursor, block |-> 0]
                 ELSE LET pdata == FileRead(bytes, hdata.cursor, header.datasize)
                          payload == ParseBlob(pdata.data, header.datasize)
                      IN  [raised |-> payload.raised, cursor |-> pdata.cursor,
                           block |-> payload.block]

\* list(self.primitive_blocks): the generator pulled until StopIteration; any
\* other exception of _read_next_block leaves the generator.  (r is bound to the
\* value of one call of _read_next_block.)
RECURSIVE primitive_blocks(_, _, _)
primitive_blocks(bytes, cur, got) ==
    CHOOSE rd \in
        {IF r.raised = "StopIteration"
         THEN [raised |-> NoError, cursor |-> r.cursor, blocks |-> got]
         ELSE IF r.raised # NoError
         THEN [raised |-> r.raised, cursor |-> r.cursor, blocks |-> got]
         ELSE primitive_blocks(bytes, r.cursor, Append(got, r.block)) :
             r \in {_read_next_block(bytes, cur)}} : TRUE

(*************************** the primitive decoder *************************)
\* a Python dict as a function from its keys; the empty dict
EmptyDict == [k \in {} |-> <<0, 0>>]

\* None, as returned by a function without a return value
None == [kind |-> "None"]

\* pygeos.prepare(geometry): prepares in place and returns nothing
prepare(geometry) == None

\* pygeos.contains(clip_polygon, point): the point lies in the interior of the
\* polygon (a box here); a missing geometry contains nothing
contains(clip_polygon, p) ==
    /\ clip_polygon.kind = "polygon"
    /\ clip_polygon.xmin < p[1] /\ p[1] < clip_polygon.xmax
    /\ clip_polygon.ymin < p[2] /\ p[2] < clip_polygon.ymax

\* PbfFileReader._clip_nodes_to_polygons(nodes, clip_polygon): the rows of the
\* data frame whose point the polygon contains
_clip_nodes_to_polygons(nodes, clip_polygon) ==
    SelectSeq(nodes, LAMBDA n : contains(clip_polygon, <<n.lon, n.lat>>))

\* {node.id: (node.lon, node.lat) for node in nodes.itertuples()}: a later row
\* overwrites an earlier one of the same id
DictOfRows(rows) ==
    [k \in {rows[i].id : i \in 1..Len(rows)} |->
        LET last == CHOOSE i \in 1..Len(rows) :
                        rows[i].id = k /\ \A j \in (i + 1)..Len(rows) : rows[j].id # k
        IN  <<rows[last].lon, rows[last].lat>>]

\* a | b on dicts: the entries of b overwrite those of a
DictUnion(a, b) ==
    [k \in DOMAIN a \cup DOMAIN b |-> IF k \in DOMAIN b THEN b[k] ELSE a[k]]

\* the three delta arrays taken as they are, without the running sums
DeltaDecodeRaw(dense_nodes) ==
    [id |-> dense_nodes.id, lon |-> dense_nodes.lon, lat |-> dense_nodes.lat]

\* the delta decoding of _parse_dense_nodes: the three cumsum() calls
DeltaDecode(dense_nodes) ==
    [id |-> cumsum(dense_nodes.id), lon |-> cumsum(dense_nodes.lon),
     lat |-> cumsum(dense_nodes.lat)]

\* the decoded rows after the granularity/offset transform of _parse_dense_nodes;
\* coordinates are counted in units of 10^-9 degrees, the unit the division by
\* 10.0 ** 9 converts from
DenseRows(dense_nodes, granularity, lon_offset, lat_offset) ==
    LET raw == DeltaDecode(dense_nodes)
    IN  [i \in 1..Len(raw.id) |->
            [id |-> raw.id[i],
             lon |-> raw.lon[i] * granularity + lon_offset,
             lat |-> raw.lat[i] * granularity + lat_offset]]

\* PbfFileReader._parse_dense_nodes: the call of _clip_nodes_to_polygons passes
\* the data frame alone, and Python refuses a call that misses a parameter
_parse_dense_nodes(dense_nodes, clip_polygon, granularity, lon_offset, lat_offset) ==
    LET nodes == DenseRows(dense_nodes, granularity, lon_offset, lat_offset)
    IN  IF ClipArgsPassed # ClipArgsRequired
        THEN [raised |-> "TypeError", value |-> EmptyDict]
        ELSE [raised |-> NoError,
              value |-> DictOfRows(_clip_nodes_to_polygons(nodes, clip_polygon))]

\* PbfFileReader._parse_nodes: the records carry id, lon, lat as they are; the
\* same one-argument call of _clip_nodes_to_polygons
_parse_nodes(nodes, clip_polygon, granularity, lon_offset, lat_offset) ==
    IF ClipArgsPassed # ClipArgsRequired
    THEN [raised |-> "TypeError", value |-> EmptyDict]
    ELSE [raised |-> NoError,
          value |-> DictOfRows(_clip_nodes_to_polygons(nodes, clip_polygon))]

\* the refs of the retained ways as they are, without the running sums
_parse_ways_raw_refs(ways, clip_polygon, index_of_highway_in_string_table) ==
    LET kept == SelectSeq(ways,
                    LAMBDA way : index_of_highway_in_string_table \in Range(way.keys))
    IN  [j \in 1..Len(kept) |-> kept[j].refs]

_parse_ways_unfiltered(ways, clip_polygon, index_of_highway_in_string_table) ==
    [j \in 1..Len(ways) |-> cumsum(ways[j].refs)]

\* PbfFileReader._parse_ways: the accumulated refs of the ways whose keys hold
\* the index of "highway"
_parse_ways(ways, clip_polygon, index_of_highway_in_string_table) ==
    LET kept == SelectSeq(ways,
                    LAMBDA way : index_of_highway_in_string_table \in Range(way.keys))
    IN  [j \in 1..Len(kept) |-> cumsum(kept[j].refs)]

\* one pass of the loop over primitive_block.primitive_group: nodes and ways are
\* assigned anew in every pass
GroupBody(primitive_block, primitive_group, clip_polygon, highway) ==
    LET dense == _parse_dense_nodes(primitive_group.dense, clip_polygon,
                     primitive_block.granularity, primitive_block.lon_offset,
                     primitive_block.lat_offset)
    IN  IF dense.raised # NoError
        THEN [raised |-> dense.raised, nodes |-> EmptyDict, ways |-> <<>>]
        ELSE IF ParseNodesArgsPassed # ParseNodesArgsRequired
        THEN [raised |-> "TypeError", nodes |-> EmptyDict, ways |-> <<>>]
        ELSE LET plain == _parse_nodes(primitive_group.nodes, clip_polygon,
                              primitive_block.granularity, primitive_block.lon_offset,
                              primitive_block.lat_offset)
             IN  IF plain.raised # NoError
                 THEN [raised |-> plain.raised, nodes |-> EmptyDict, ways |-> <<>>]
                 ELSE [raised |-> NoError,
                       nodes |-> DictUnion(dense.value, plain.value),
                       ways |-> _parse_ways(primitive_group.ways, clip_polygon, highway)]

\* the loop of _parse_primitive_block from group g on; last is the result of the
\* pass before (bound tells whether nodes and ways have been assigned at all)
RECURSIVE GroupLoop(_, _, _, _, _)
GroupLoop(primitive_block, clip_polygon, highway, g, last) ==
    IF g > Len(primitive_block.primitive_group) THEN last
    ELSE LET pass == GroupBody(primitive_block, primitive_block.primitive_group[g],
                         clip_polygon, highway)
         IN  IF pass.raised # NoError
             THEN [raised |-> pass.raised, bound |-> last.bound,
                   nodes |-> EmptyDict, ways |-> <<>>]
             ELSE GroupLoop(primitive_block, clip_polygon, highway, g + 1,
                      [raised |-> NoError, bound |-> TRUE,
                       nodes |-> pass.nodes, ways |-> pass.ways])

\* PbfFileReader._parse_primitive_block: stringtable.s.index raises ValueError
\* for a missing "highway"; return nodes, ways reads names the loop assigns
_parse_primitive_block(primitive_block, clip_polygon) ==
    LET prepared == prepare(clip_polygon)
        highway == index(primitive_block.stringtable, "highway")
    IN  IF highway = -1
        THEN [raised |-> "ValueError", nodes |-> EmptyDict, ways |-> <<>>]
        ELSE LET loop == GroupLoop(primitive_block, prepared, highway, 1,
                             [raised |-> NoError, bound |-> FALSE,
                              nodes |-> EmptyDict, ways |-> <<>>])
             IN  IF loop.raised # NoError
                 THEN [raised |-> loop.raised, nodes |-> EmptyDict, ways |-> <<>>]
                 ELSE IF ~loop.bound
                 THEN [raised |-> "UnboundLocalError", nodes |-> EmptyDict, ways |-> <<>>]
                 ELSE [raised |-> NoError, nodes |-> loop.nodes, ways |-> loop.ways]

(******************************* the clipper *******************************)
\* node in nodes: a key of a dict; for a tuple of dicts an element equal to
\* node, and neither a node id nor a list of ids ever equals a dict
In(node, nodes) ==
    IF nodes.kind = "dict" THEN node \in DOMAIN nodes.map ELSE FALSE

\* t[key] on the tuple (lon, lat): a tuple takes integer subscripts only
tuple_getitem(t, key) ==
    IF key \in {"0", "1"}
    THEN [raised |-> NoError, value |-> IF key = "0" THEN t[1] ELSE t[2]]
    ELSE [raised |-> "TypeError", value |-> 0]

\* pygeos.linestrings(coords): coords must be a rectangular array of at least
\* one row of at least two coordinates of two or three ordinates
linestrings(coords) ==
    IF Len(coords) = 0
    THEN [raised |-> "ValueError", value |-> <<>>]
    ELSE IF \E i \in 1..Len(coords) : Len(coords[i]) # Len(coords[1])
    THEN [raised |-> "ValueError", value |-> <<>>]
    ELSE IF Len(coords[1]) = 0
    THEN [raised |-> "ValueError", value |-> <<>>]
    ELSE IF Len(coords[1]) = 1
    THEN [raised |-> "GEOSException", value |-> <<>>]
    ELSE [raised |-> NoError, value |-> coords]

\* if len(way) < 2, the condition of step 2
Keeps(way) == Len(way) < 2

\* PbfFileReader._geometries_for_ways(ways, nodes); existing is the list of ways
\* after step 1, kept the list after step 2, the ways whose coordinates are
\* looked up in step 3
_geometries_for_ways(ways, nodes) ==
    LET existing == [i \in 1..Len(ways) |->
                        SelectSeq(ways[i], LAMBDA node : In(node, nodes))]
        kept == SelectSeq(existing, Keeps)
        lookups == UNION {{tuple_getitem(nodes.map[kept[i][j]], key) :
                                j \in 1..Len(kept[i]), key \in {"lon", "lat"}} :
                            i \in 1..Len(kept)}
    IN  IF \E i \in 1..Len(kept) : Len(kept[i]) > 0
        THEN IF \E l \in lookups : l.raised # NoError
             THEN [raised |-> (CHOOSE l \in lookups : l.raised # NoError).raised,
                   existing |-> existing, kept |-> kept, value |-> <<>>]
             ELSE LET coords == [i \in 1..Len(kept) |-> [j \in 1..Len(kept[i]) |->
                                    <<tuple_getitem(nodes.map[kept[i][j]], "lon").value,
                                      tuple_getitem(nodes.map[kept[i][j]], "lat").value>>]]
                      made == linestrings(coords)
                  IN  [raised |-> made.raised, existing |-> existing, kept |-> kept,
                       value |-> made.value]
        ELSE LET made == linestrings(kept)
             IN  [raised |-> made.raised, existing |-> existing, kept |-> kept,
                  value |-> made.value]

\* numpy.array_split(ary, n): n contiguous parts, the first Len(ary) % n of them
\* one element longer
array_split(ary, n) ==
    [k \in 1..n |->
        LET q == Len(ary) \div n
            r == Len(ary) % n
            start == (k - 1) * q + Min(k - 1, r)
            size == q + (IF k <= r THEN 1 ELSE 0)
        IN  SubSeq(ary, start + 1, start + size)]

RECURSIVE Concat(_)
Concat(lists) ==
    IF Len(lists) = 0 THEN <<>> ELSE lists[1] \o Concat(Tail(lists))

(***************************** the orchestrator ****************************)
\* a starmap that keeps the values of the tasks and drops their exceptions
starmapIgnoringFaults(results) == {NoError}

\* Pool.starmap(f, tasks) over the results of the tasks: the list of the values,
\* or the exception of a task that failed (whichever failure arrives first)
starmap(results) ==
    LET failures == {results[i].raised : i \in 1..Len(results)} \ {NoError}
    IN  IF failures = {} THEN {NoError} ELSE failures

\* the shapes numpy can put into one array: lists of one length, of lists of
\* one length
Ragged(ways) ==
    \/ \E i, j \in 1..Len(ways) : Len(ways[i]) # Len(ways[j])
    \/ \E i, j \in 1..Len(ways) : \E k \in 1..Len(ways[i]) : \E l \in 1..Len(ways[j]) :
           Len(ways[i][k]) # Len(ways[j][l])

\* phase 2 of street_network on the collected phase-1 results: nodes, ways =
\* zip(*parsed_data) makes nodes the tuple of the blocks' mappings and ways the
\* tuple of the blocks' way lists; ways is split into num_workers shards, every
\* shard goes to _geometries_for_ways with the tuple nodes, and the results are
\* concatenated.  numpy builds the array to split from lists of unequal lengths
\* in some versions and raises ValueError in others.
Phase2(parsed_data, num_workers) ==
    UNION {UNION {
        (IF starmap(made) # {NoError}
         THEN {[raised |-> e, phase |-> "phase2", shards |-> shards, made |-> made,
                value |-> <<>>] : e \in starmap(made)}
         ELSE {[raised |-> NoError, phase |-> "done", shards |-> shards, made |-> made,
                value |-> Concat([k \in 1..num_workers |-> made[k].value])]})
        \cup
        (IF Ragged(ways)
         THEN {[raised |-> "ValueError", phase |-> "phase2", shards |-> <<>>,
                made |-> <<>>, value |-> <<>>]}
         ELSE {})
        : made \in {[k \in 1..num_workers |-> _geometries_for_ways(shards[k], nodes)]}}
      : nodes \in {[kind |-> "tuple",
                    items |-> [i \in 1..Len(parsed_data) |-> parsed_data[i].nodes]]},
        ways \in {[i \in 1..Len(parsed_data) |-> parsed_data[i].ways]},
        shards \in {array_split([i \in 1..Len(parsed_data) |-> parsed_data[i].ways],
                                num_workers)}}

\* street_network from line 240 on, given the outcomes of the phase-1 tasks:
\* starmap raises the exception of a failed task in the caller (no try encloses
\* it but the one that caught AttributeError), nodes, ways = zip(*parsed_data)
\* needs at least one pair, and phase 2 follows
Collect(parsed_data, num_workers) ==
    IF starmap(parsed_data) # {NoError}
    THEN {[raised |-> e, phase |-> "phase1", tasks |-> Len(parsed_data),
           collected |-> <<>>, made |-> <<>>, value |-> <<>>] : e \in starmap(parsed_data)}
    ELSE IF Len(parsed_data) = 0
    THEN {[raised |-> "ValueError", phase |-> "unzip", tasks |-> 0, collected |-> <<>>,
           made |-> <<>>, value |-> <<>>]}
    ELSE {[raised |-> out.raised, phase |-> out.phase, tasks |-> Len(parsed_data),
           collected |-> parsed_data, made |-> out.made, value |-> out.value] :
              out \in Phase2(parsed_data, num_workers)}

\* the body of street_network's except branch on the blocks read from the file:
\* the outcomes the access can have (parsed_data is bound to the value the code
\* assigns once)
Compute(blocks, rd, clip_polygon, num_workers) ==
    IF rd.raised # NoError
    THEN {[raised |-> rd.raised, phase |-> "read", tasks |-> 0, collected |-> <<>>,
           made |-> <<>>, value |-> <<>>]}
    ELSE UNION {Collect(parsed_data, num_workers)
        : parsed_data \in {[i \in 1..Len(rd.blocks) |->
              _parse_primitive_block(blocks[rd.blocks[i]].content, clip_polygon)]}}

(****************************** sample inputs ******************************)
\* four dense nodes, ids 1..4, on the line lat = 100 at lon = 100, 200, 300, 400
SquareNodes == [id |-> <<1, 1, 1, 1>>, lon |-> <<1, 1, 1, 1>>, lat |-> <<1, 0, 0, 0>>]

NoDense == [id |-> <<>>, lon |-> <<>>, lat |-> <<>>]

StreetGroup ==
    [dense |-> SquareNodes, nodes |-> <<>>,
     ways |-> <<[keys |-> <<1>>, refs |-> <<1, 1, 1, 1>>]>>]

StreetBlock ==
    [stringtable |-> <<"", "highway">>, primitive_group |-> <<StreetGroup>>,
     granularity |-> 100, lon_offset |-> 0, lat_offset |-> 0]

NoHighwayBlock ==
    [stringtable |-> <<"", "name">>, primitive_group |-> <<StreetGroup>>,
     granularity |-> 100, lon_offset |-> 0, lat_offset |-> 0]

NoGroupBlock ==
    [stringtable |-> <<"", "highway">>, primitive_group |-> <<>>,
     granularity |-> 100, lon_offset |-> 0, lat_offset |-> 0]

FileBlocks == {StreetBlock, NoHighwayBlock, NoGroupBlock}

\* the box around all four nodes, and a box around the first two
Polygons ==
    {[kind |-> "polygon", xmin |-> 0, xmax |-> 500, ymin |-> 0, ymax |-> 500],
     [kind |-> "polygon", xmin |-> 0, xmax |-> 250, ymin |-> 0, ymax |-> 500]}

OnDisk(content) == [hlen |-> HdrLen, dsize |-> PayloadLen, content |-> content]

(********************************* state ***********************************)
VARIABLES
    file,          \* the blocks written to the file; file[1] is the header block
    fileLen,       \* the number of bytes the file holds (less if it was cut short)
    clip_polygon,  \* self._clip_polygon
    numWorkers,    \* multiprocessing.cpu_count() + 1
    reader,        \* "none", "ready", "failed" (__init__ raised), "deleted"
    initRaised,    \* the exception that left __init__
    fileOpen,      \* self._file is open
    cursor,        \* the position of self._file
    header,        \* self.header: the number of the block it was decoded from
    cache,         \* self._street_network
    accesses,      \* one record per access to street_network that has ended
    scope,         \* the with statement around the reader: "none", "inside", "left"
    scopeRaised,   \* the exception raised by leaving the with statement
    gen,           \* a generator the caller took from primitive_blocks
    yielded,       \* the blocks that generator has yielded
    lock,          \* self._lock: the consumer holding it, 0 if free
    pc,            \* per consumer thread: where it is in primitive_blocks
    buf,           \* per consumer thread: the reads of the block it is assembling
    delivered,     \* per consumer thread: the blocks it was given
    arg,           \* the input of a function applied on its own
    ret,           \* the result of that function
    downloader,    \* the download() that is running: "none", "metadata", "image"
    main,          \* the position of the caller in download()
    parts_put,     \* the parts of the input put on input_queue so far
    input_queue,   \* queue.Queue: the parts not yet taken by a thread
    unfinished_tasks, \* input_queue's count of parts put and not yet task_done
    output_queue,  \* queue.Queue: the results not yet taken by the caller
    worker,        \* per thread: its position, its shutdown event, its part
    joined,        \* the threads whose join() has returned
    results_put,   \* every result a thread has put on output_queue, in order
    streetview_metadata, \* the list the caller drains output_queue into
    returned       \* what download() returned

vars ==
    <<file, fileLen, clip_polygon, numWorkers, reader, initRaised, fileOpen, cursor,
      header, cache, accesses, scope, scopeRaised, gen, yielded, lock, pc, buf,
      delivered, arg, ret, downloader, main, parts_put, input_queue,
      unfinished_tasks, output_queue, worker, joined, results_put,
      streetview_metadata, returned>>

fileVars == <<file, fileLen, clip_polygon, numWorkers>>
readerVars == <<reader, initRaised, fileOpen, cursor, header>>
accessVars == <<cache, accesses>>
scopeVars == <<scope, scopeRaised>>
genVars == <<gen, yielded>>
threadVars == <<lock, pc, buf, delivered>>
pureVars == <<arg, ret>>
downloadVars ==
    <<downloader, main, parts_put, input_queue, unfinished_tasks, output_queue,
      worker, joined, results_put, streetview_metadata, returned>>

\* the bytes the file holds
Bytes == SubSeq(FileBytes(file), 1, fileLen)

NoThread == 0
Unset == [set |-> FALSE, value |-> <<>>]

NoThreads == lock = NoThread /\ pc = <<>> /\ buf = <<>> /\ delivered = <<>>
NoCall == arg = [fn |-> "none"] /\ ret = [fn |-> "none"]

\* no download() is running
NoDownload ==
    /\ downloader = "none" /\ main = "none" /\ parts_put = 0
    /\ input_queue = <<>> /\ unfinished_tasks = 0 /\ output_queue = <<>>
    /\ worker = <<>> /\ joined = {} /\ results_put = <<>>
    /\ streetview_metadata = <<>> /\ returned = None

\* a file: a header block and up to MaxBlocks primitive blocks, possibly cut short
InitFile ==
    /\ \E n \in 0..MaxBlocks : \E body \in [1..n -> FileBlocks] :
           file = <<OnDisk("header")>> \o [i \in 1..n |-> OnDisk(body[i])]
    /\ fileLen \in 0..Len(FileBytes(file))
    /\ clip_polygon \in Polygons
    /\ numWorkers \in 1..MaxWorkers

Init ==
    /\ InitFile
    /\ reader = "none" /\ initRaised = NoError /\ fileOpen = FALSE /\ cursor = 0
    /\ header = 0
    /\ cache = Unset /\ accesses = <<>>
    /\ scope = "none" /\ scopeRaised = NoError
    /\ gen = "none" /\ yielded = <<>>
    /\ NoThreads
    /\ NoCall
    /\ NoDownload

(************************** the reader's operations ************************)
\* PbfFileReader.__init__: open the file, seek(0), decode the header block
Construct ==
    /\ reader = "none"
    /\ \E bytes \in {Bytes} : \E r \in {_read_next_block(bytes, 0)} :
           /\ fileOpen' = TRUE
           /\ cursor' = r.cursor
           /\ initRaised' = r.raised
           /\ reader' = IF r.raised = NoError THEN "ready" ELSE "failed"
           /\ header' = r.block
    /\ UNCHANGED <<downloadVars, fileVars, accessVars, scopeVars, genVars, threadVars, pureVars>>

\* PbfFileReader.__del__, run when the last reference to the reader is gone
\* (not before the with statement that holds it is left)
Del ==
    /\ reader \in {"ready", "failed"}
    /\ scope # "inside"
    /\ reader' = "deleted"
    /\ fileOpen' = FALSE
    /\ UNCHANGED <<downloadVars, fileVars, initRaised, cursor, header, accessVars, scopeVars,
                   genVars, threadVars, pureVars>>

\* PbfFileReader.__enter__
Enter ==
    /\ reader = "ready"
    /\ scope = "none"
    /\ scope' = "inside"
    /\ UNCHANGED <<downloadVars, fileVars, readerVars, accessVars, scopeRaised, genVars,
                   threadVars, pureVars>>

\* what the with statement passes to __exit__, and what __exit__(self) takes
WithExitArgs == <<"exc_type", "exc_value", "traceback">>
ExitParams == <<>>

\* leaving the with statement, after the body ended or raised: __exit__ is
\* called with the exception triple; its body returns None and closes nothing
Exit ==
    /\ scope = "inside"
    /\ scope' = "left"
    /\ scopeRaised' = IF Len(WithExitArgs) # Len(ExitParams) THEN "TypeError" ELSE NoError
    /\ UNCHANGED <<downloadVars, fileVars, readerVars, accessVars, genVars, threadVars, pureVars>>

\* next() on a generator that starts reading at the beginning of the file
NextBlockFromStart ==
    /\ reader = "ready"
    /\ scope # "left"
    /\ gen \in {"none", "active"}
    /\ lock = NoThread
    /\ \E bytes \in {Bytes} :
       \E r \in {_read_next_block(bytes, IF gen = "none" THEN 0 ELSE cursor)} :
           /\ cursor' = r.cursor
           /\ gen' = IF r.raised = NoError THEN "active"
                     ELSE IF r.raised = "StopIteration" THEN "exhausted"
                     ELSE "failed"
           /\ yielded' = IF r.raised = NoError THEN Append(yielded, r.block) ELSE yielded
    /\ UNCHANGED <<downloadVars, fileVars, reader, initRaised, fileOpen, header, accessVars,
                   scopeVars, threadVars, pureVars>>

\* one next() on a generator of primitive_blocks held by the caller: the lock is
\* taken, _primitive_block() reads one block, the lock is released
NextBlock ==
    /\ reader = "ready"
    /\ scope # "left"
    /\ gen \in {"none", "active"}
    /\ lock = NoThread
    /\ \E bytes \in {Bytes} : \E r \in {_read_next_block(bytes, cursor)} :
           /\ cursor' = r.cursor
           /\ gen' = IF r.raised = NoError THEN "active"
                     ELSE IF r.raised = "StopIteration" THEN "exhausted"
                     ELSE "failed"
           /\ yielded' = IF r.raised = NoError THEN Append(yielded, r.block) ELSE yielded
    /\ UNCHANGED <<downloadVars, fileVars, reader, initRaised, fileOpen, header, accessVars,
                   scopeVars, threadVars, pureVars>>

\* the caller drops the generator before it is exhausted
Abandon ==
    /\ gen = "active"
    /\ gen' = "abandoned"
    /\ UNCHANGED <<downloadVars, fileVars, readerVars, accessVars, scopeVars, yielded,
                   threadVars, pureVars>>

\* one access to the property street_network
street_network ==
    /\ reader = "ready"
    /\ scope # "left"
    /\ Len(accesses) < MaxAccesses
    /\ IF cache.set
       THEN /\ accesses' = Append(accesses,
                   [cached |-> TRUE, pool |-> FALSE, start |-> cursor, read |-> <<>>,
                    raised |-> NoError, phase |-> "cached", tasks |-> 0, collected |-> <<>>,
                    workers |-> numWorkers, value |-> cache.value])
            /\ UNCHANGED <<cursor, cache>>
       ELSE \E bytes \in {Bytes} : \E rd \in {primitive_blocks(bytes, cursor, <<>>)} :
                /\ cursor' = rd.cursor
                /\ \E out \in Compute(file, rd, clip_polygon, numWorkers) :
                       /\ accesses' = Append(accesses,
                              [cached |-> FALSE, pool |-> TRUE, start |-> cursor,
                               read |-> rd.blocks, raised |-> out.raised,
                               phase |-> out.phase, tasks |-> out.tasks, collected |-> out.collected,
                               workers |-> numWorkers, value |-> out.value])
                       /\ cache' = IF out.raised = NoError
                                   THEN [set |-> TRUE, value |-> out.value]
                                   ELSE cache
    /\ UNCHANGED <<downloadVars, fileVars, reader, initRaised, fileOpen, header, scopeVars,
                   genVars, threadVars, pureVars>>

Next ==
    \/ Construct
    \/ Del
    \/ Enter
    \/ Exit
    \/ NextBlock
    \/ Abandon
    \/ street_network

Spec == Init /\ [][Next]_vars

(******************* iteration over a well-formed file *********************)
\* a reader constructed on a file that holds all of its blocks
InitIter ==
    /\ \E n \in 0..MaxBlocks : \E body \in [1..n -> FileBlocks] :
           file = <<OnDisk("header")>> \o [i \in 1..n |-> OnDisk(body[i])]
    /\ fileLen = Len(FileBytes(file))
    /\ clip_polygon \in Polygons
    /\ numWorkers \in 1..MaxWorkers
    /\ reader = "ready" /\ initRaised = NoError /\ fileOpen = TRUE
    /\ cursor = BlockEnd(file, 1)
    /\ header = 1
    /\ cache = Unset /\ accesses = <<>>
    /\ scope = "none" /\ scopeRaised = NoError
    /\ gen = "none" /\ yielded = <<>>
    /\ NoThreads
    /\ NoCall
    /\ NoDownload

NextIter ==
    \/ NextBlock
    \/ Abandon
    \/ street_network

\* a caller that iterates over primitive_blocks goes on calling next() until the
\* generator ends or it drops the generator
SpecIter == InitIter /\ [][NextIter]_vars /\ WF_vars(NextBlock)

(*********************** the functions on their own ************************)
NoFile == file = <<>> /\ fileLen = 0 /\ clip_polygon = None /\ numWorkers = 1

NoReader ==
    /\ reader = "none" /\ initRaised = NoError /\ fileOpen = FALSE /\ cursor = 0
    /\ header = 0
    /\ cache = Unset /\ accesses = <<>>
    /\ scope = "none" /\ scopeRaised = NoError
    /\ gen = "none" /\ yielded = <<>>

readerState == <<downloadVars, fileVars, readerVars, accessVars, scopeVars, genVars>>

\* sequences over S of length 0..n
SeqsUpTo(S, n) == UNION {[1..k -> S] : k \in 0..n}

\* node mappings as _parse_dense_nodes builds them: id -> (lon, lat)
NodeDicts ==
    {[kind |-> "dict", map |-> [id \in ids |-> <<100 * id, 100>>]] : ids \in SUBSET (1..MaxNode)}

InitGeom ==
    /\ NoFile /\ NoReader /\ NoThreads /\ NoDownload
    /\ arg \in {[fn |-> "_geometries_for_ways", ways |-> w, nodes |-> n] :
                   w \in SeqsUpTo(SeqsUpTo(1..MaxNode, MaxWayLen), MaxGeomWays),
                   n \in NodeDicts}
    /\ ret = [fn |-> "none"]

\* a call of _geometries_for_ways(ways, nodes)
GeometriesForWays ==
    /\ arg.fn = "_geometries_for_ways"
    /\ ret.fn = "none"
    /\ ret' = [fn |-> "_geometries_for_ways"] @@ _geometries_for_ways(arg.ways, arg.nodes)
    /\ UNCHANGED <<readerState, threadVars, arg>>

NextGeom == GeometriesForWays

SpecGeom == InitGeom /\ [][NextGeom]_vars

\* way records of a primitive group: tag key indices and delta-encoded refs
Ways ==
    {[keys |-> k, refs |-> r] :
        k \in {<<>>, <<1>>, <<2>>, <<1, 2>>, <<3, 1>>},
        r \in {<<1, 1>>, <<2, 2, -1>>, <<4, -3, 1, 1>>}}

InitWays ==
    /\ NoFile /\ NoReader /\ NoThreads /\ NoDownload
    /\ arg \in {[fn |-> "_parse_ways", ways |-> w, polygon |-> p, index |-> i] :
                   w \in SeqsUpTo(Ways, MaxWays), p \in {None}, i \in 0..2}
    /\ ret = [fn |-> "none"]

\* a call of _parse_ways(ways, clip_polygon, index_of_highway_in_string_table)
ParseWays ==
    /\ arg.fn = "_parse_ways"
    /\ ret.fn = "none"
    /\ ret' = [fn |-> "_parse_ways", raised |-> NoError,
               value |-> _parse_ways(arg.ways, arg.polygon, arg.index)]
    /\ UNCHANGED <<readerState, threadVars, arg>>

NextWays == ParseWays

SpecWays == InitWays /\ [][NextWays]_vars

\* primitive groups: with or without dense nodes, with or without an individually
\* encoded node (id 2, as the dense node 2 or elsewhere), with or without ways
Groups ==
    {[dense |-> d, nodes |-> n, ways |-> w] :
        d \in {NoDense, SquareNodes},
        n \in {<<>>, <<[id |-> 2, lon |-> 300, lat |-> 100]>>},
        w \in {<<>>, <<[keys |-> <<1>>, refs |-> <<1, 1, 1, 1>>],
                       [keys |-> <<2>>, refs |-> <<2, 1>>]>>}}

PrimitiveBlocks ==
    {[stringtable |-> s, primitive_group |-> g, granularity |-> 100,
      lon_offset |-> 0, lat_offset |-> 0] :
        s \in {<<"", "highway">>, <<"", "name", "highway">>, <<"", "name">>},
        g \in SeqsUpTo(Groups, MaxGroups)}

InitBlock ==
    /\ NoFile /\ NoReader /\ NoThreads /\ NoDownload
    /\ arg \in {[fn |-> "_parse_primitive_block", block |-> b, polygon |-> p] :
                   b \in PrimitiveBlocks, p \in Polygons}
    /\ ret = [fn |-> "none"]

\* a call of _parse_primitive_block(primitive_block, clip_polygon)
ParsePrimitiveBlock ==
    /\ arg.fn = "_parse_primitive_block"
    /\ ret.fn = "none"
    /\ ret' = [fn |-> "_parse_primitive_block"]
              @@ _parse_primitive_block(arg.block, arg.polygon)
    /\ UNCHANGED <<readerState, threadVars, arg>>

NextBlockFn == ParsePrimitiveBlock

SpecBlock == InitBlock /\ [][NextBlockFn]_vars

\* dense-node records: delta arrays of one length for id, lon and lat
Deltas == {-1, 2}

DenseNodes ==
    UNION {{[id |-> i, lon |-> x, lat |-> y] :
                i \in [1..n -> Deltas], x \in [1..n -> Deltas], y \in [1..n -> Deltas]} :
           n \in 0..MaxDense}

InitDense ==
    /\ NoFile /\ NoReader /\ NoThreads /\ NoDownload
    /\ arg \in {[fn |-> "_parse_dense_nodes", dense |-> d, polygon |-> None,
                  granularity |-> 100, lon_offset |-> 0, lat_offset |-> 0] :
                   d \in DenseNodes}
    /\ ret = [fn |-> "none"]

\* a call of _parse_dense_nodes: the decoded columns, the rows handed to the
\* clip, and the outcome of the call
ParseDenseNodes ==
    /\ arg.fn = "_parse_dense_nodes"
    /\ ret.fn = "none"
    /\ ret' = [fn |-> "_parse_dense_nodes",
               decoded |-> DeltaDecode(arg.dense),
               rows |-> DenseRows(arg.dense, arg.granularity, arg.lon_offset,
                                  arg.lat_offset),
               raised |-> _parse_dense_nodes(arg.dense, arg.polygon, arg.granularity,
                              arg.lon_offset, arg.lat_offset).raised]
    /\ UNCHANGED <<readerState, threadVars, arg>>

NextDense == ParseDenseNodes

SpecDense == InitDense /\ [][NextDense]_vars

\* phase-1 results as _parse_primitive_block is declared to return them: a
\* node mapping and a list of candidate ways, which may name nodes of another block
PhaseOnePairs ==
    {[raised |-> NoError, nodes |-> [id \in ids |-> <<100 * id, 100>>], ways |-> w] :
        ids \in {{}, {1, 2}, {3}, {1, 2, 3}},
        w \in SeqsUpTo({<<1, 2>>, <<2, 3>>, <<1, 2, 3>>}, MaxGeomWays)}

InitPhase2 ==
    /\ NoFile /\ NoReader /\ NoThreads /\ NoDownload
    /\ arg \in {[fn |-> "phase2", parsed_data |-> p, workers |-> w] :
                   p \in SeqsUpTo(PhaseOnePairs, MaxBlocks) \ {<<>>},
                   w \in 1..MaxWorkers}
    /\ ret = [fn |-> "none"]

\* phase 2 of street_network on collected phase-1 results
StreetNetworkPhase2 ==
    /\ arg.fn = "phase2"
    /\ ret.fn = "none"
    /\ \E out \in Phase2(arg.parsed_data, arg.workers) :
           ret' = [fn |-> "phase2"] @@ out
    /\ UNCHANGED <<readerState, threadVars, arg>>

NextPhase2 == StreetNetworkPhase2

SpecPhase2 == InitPhase2 /\ [][NextPhase2]_vars

\* the outcomes _parse_primitive_block has on the blocks of the sample files
PhaseOneFaults ==
    {_parse_primitive_block(b, p) : b \in FileBlocks, p \in Polygons}

\* outcomes of the phase-1 tasks of one access: the faults above, and pairs over
\* the nodes 1..3 with at most one way
TaskOutcomes ==
    PhaseOneFaults
    \cup {p \in PhaseOnePairs : DOMAIN p.nodes = {1, 2, 3} /\ Len(p.ways) <= 1}

InitCollect ==
    /\ NoFile /\ NoReader /\ NoThreads /\ NoDownload
    /\ arg \in {[fn |-> "street_network", parsed_data |-> p, workers |-> w] :
                   p \in SeqsUpTo(TaskOutcomes, MaxBlocks),
                   w \in 1..MaxWorkers}
    /\ ret = [fn |-> "none"]

\* street_network from the point where the phase-1 tasks have ended
StreetNetworkCollect ==
    /\ arg.fn = "street_network"
    /\ ret.fn = "none"
    /\ \E out \in Collect(arg.parsed_data, arg.workers) :
           ret' = [fn |-> "street_network"] @@ out
    /\ UNCHANGED <<readerState, threadVars, arg>>

NextCollect == StreetNetworkCollect

SpecCollect == InitCollect /\ [][NextCollect]_vars

(************************ StreetNetworkDownloader ***************************)
\* the names bound at module level in streetnetworkdownloader.py (imports and the
\* class), and the local names of street_network bound when line 72 is reached
DownloaderGlobals ==
    {"datetime", "os", "tempfile", "Cache", "NotInCache", "CachingRequestsSession",
     "ExtractFinder", "PbfFileClipper", "warnings", "StreetNetworkDownloader"}

DownloaderLocals ==
    {"self", "polygon", "extract_url", "input_filename", "input_file", "session",
     "response"}

\* str(polygon): the WKT text of the polygon, here its corner coordinates
str(polygon) == <<"POLYGON", polygon.xmin, polygon.ymin, polygon.xmax, polygon.ymax>>

\* Cache.cached(key): the entry stored under key, or NotInCache
cached(entries, key) ==
    IF key \in DOMAIN entries
    THEN [raised |-> NoError, value |-> entries[key]]
    ELSE [raised |-> "NotInCache", value |-> None]

\* Cache.write_to_cache(key, value)
write_to_cache(entries, key, value) ==
    [k \in DOMAIN entries \cup {key} |-> IF k = key THEN value ELSE entries[k]]

\* those of the names an expression reads that are bound nowhere
Unbound(names) ==
    SelectSeq(names, LAMBDA n : n \notin DownloaderGlobals \cup DownloaderLocals)

\* StreetNetworkDownloader.street_network(polygon) on the entries of a cache:
\* what it raises and returns, the cache afterwards, whether it downloaded an
\* extract, and the temporary files it left behind.  The body has no return
\* statement; a name read at line 72 or 74 that is bound nowhere is a NameError.
StreetNetworkDownloader_street_network(entries, polygon) ==
    LET hit == cached(entries, str(polygon))
        read_by_clip == <<"PbfFileReader", "input_filename", "polygon", "output_filename">>
        read_by_write == <<"self", "polygon", "output">>
    IN  IF hit.raised = NoError
        THEN [raised |-> NoError, value |-> None, cache |-> entries,
              downloaded |-> FALSE, temp_files |-> {}]
        ELSE IF Unbound(read_by_clip) # <<>> \/ Unbound(read_by_write) # <<>>
        THEN [raised |-> "NameError", value |-> None, cache |-> entries,
              downloaded |-> TRUE, temp_files |-> {"input_filename"}]
        ELSE [raised |-> NoError, value |-> None,
              cache |-> write_to_cache(entries, str(polygon), "clipped"),
              downloaded |-> TRUE, temp_files |-> {}]

\* the polygons a caller asks for, and the caches it may find
ExtentPolygons ==
    Polygons \cup {[kind |-> "polygon", xmin |-> 100, xmax |-> 500, ymin |-> 0, ymax |-> 500]}

Caches ==
    UNION {[keys -> {"clipped", "older", "other"}] :
               keys \in SUBSET {str(p) : p \in ExtentPolygons}}

InitDownloader ==
    /\ NoFile /\ NoReader /\ NoThreads /\ NoDownload
    /\ arg \in {[fn |-> "StreetNetworkDownloader.street_network", cache |-> c,
                  polygon |-> p] : c \in Caches, p \in ExtentPolygons}
    /\ ret = [fn |-> "none"]

\* a call of StreetNetworkDownloader.street_network(polygon)
DownloaderStreetNetwork ==
    /\ arg.fn = "StreetNetworkDownloader.street_network"
    /\ ret.fn = "none"
    /\ ret' = [fn |-> "StreetNetworkDownloader.street_network"]
              @@ StreetNetworkDownloader_street_network(arg.cache, arg.polygon)
    /\ UNCHANGED <<readerState, threadVars, arg>>

NextDownloader == DownloaderStreetNetwork

SpecDownloader == InitDownloader /\ [][NextDownloader]_vars

(********************** StreetNetworkPointGenerator ************************)
\* the default of the parameter distance_between_points
DefaultDistance == 20
\* the distance zipped to every shard: itertools.repeat(20)
RepeatedDistance == 20

\* the names bound at module level in streetnetworkpointgenerator.py
GeneratorGlobals ==
    {"itertools", "multiprocessing", "os", "shutil", "tempfile", "geopandas", "numpy",
     "pandas", "pyproj", "pyrosm", "StreetNetworkPointGenerator"}

\* the property StreetNetworkPointGenerator.street_network: the network stored
\* on the instance, or the except branch, which reads the module name pbfclipper
generator_street_network(stored, network) ==
    IF stored THEN [raised |-> NoError, value |-> network]
    ELSE IF "pbfclipper" \notin GeneratorGlobals
    THEN [raised |-> "NameError", value |-> <<>>]
    ELSE [raised |-> NoError, value |-> network]

\* StreetNetworkPointGenerator.points_on_street_network(extent,
\* distance_between_points): the tasks handed to workers.starmap, one per shard
points_on_street_network(stored, network, distance_between_points, num_workers) ==
    LET projected == generator_street_network(stored, network)
    IN  IF projected.raised # NoError
        THEN [raised |-> projected.raised, tasks |-> <<>>]
        ELSE [raised |-> NoError,
              tasks |-> [k \in 1..num_workers |->
                            [geodataframe |-> array_split(projected.value,
                                                          num_workers)[k],
                             distance |-> RepeatedDistance]]]

InitPoints ==
    /\ NoFile /\ NoReader /\ NoThreads /\ NoDownload
    /\ arg \in {[fn |-> "points_on_street_network", stored |-> h, street_network |-> n,
                  distance_between_points |-> d, workers |-> w] :
                   h \in BOOLEAN, n \in SeqsUpTo({"street", "lane"}, MaxStreets),
                   d \in {10, DefaultDistance, 50}, w \in 1..MaxWorkers}
    /\ ret = [fn |-> "none"]

\* a call of points_on_street_network(extent, distance_between_points)
PointsOnStreetNetwork ==
    /\ arg.fn = "points_on_street_network"
    /\ ret.fn = "none"
    /\ ret' = [fn |-> "points_on_street_network"]
              @@ points_on_street_network(arg.stored, arg.street_network,
                                          arg.distance_between_points, arg.workers)
    /\ UNCHANGED <<readerState, threadVars, arg>>

NextPoints == PointsOnStreetNetwork

SpecPoints == InitPoints /\ [][NextPoints]_vars

(******************* concurrent consumers of primitive_blocks ***************)
Consumers == 1..NumConsumers

NoBuf == [offsets |-> {}, header_length |-> 0, datasize |-> 0]

\* a reader that was constructed on a file whose header block is whole, and
\* consumer threads that each iterate over reader.primitive_blocks
InitThreads ==
    /\ \E n \in 0..MaxBlocks : \E body \in [1..n -> FileBlocks] :
           file = <<OnDisk("header")>> \o [i \in 1..n |-> OnDisk(body[i])]
    /\ fileLen \in BlockEnd(file, 1)..Len(FileBytes(file))
    /\ clip_polygon \in Polygons
    /\ numWorkers = 1
    /\ reader = "ready" /\ initRaised = NoError /\ fileOpen = TRUE
    /\ cursor = BlockEnd(file, 1)
    /\ header = 1
    /\ cache = Unset /\ accesses = <<>>
    /\ scope = "none" /\ scopeRaised = NoError
    /\ gen = "none" /\ yielded = <<>>
    /\ lock = NoThread
    /\ pc = [t \in Consumers |-> "next"]
    /\ buf = [t \in Consumers |-> NoBuf]
    /\ delivered = [t \in Consumers |-> <<>>]
    /\ NoCall
    /\ NoDownload

CanAcquireUnlocked(holder) == TRUE

\* threading.Lock: with self._lock is entered only while no thread holds the lock
CanAcquire(holder) == holder = NoThread

quiet == <<downloadVars, fileVars, reader, initRaised, fileOpen, header, accessVars, scopeVars,
           genVars, pureVars>>

\* leaving the with block, normally or by an exception, releases the lock
Release(t) == lock' = IF lock = t THEN NoThread ELSE lock

\* with self._lock:
Acquire(t) ==
    /\ pc[t] = "next"
    /\ CanAcquire(lock)
    /\ lock' = t
    /\ pc' = [pc EXCEPT ![t] = "prefix"]
    /\ buf' = [buf EXCEPT ![t] = NoBuf]
    /\ UNCHANGED <<quiet, cursor, delivered>>

\* buffer = self._file.read(4), the end-of-file test and the unpacking
ReadPrefix(t) ==
    /\ pc[t] = "prefix"
    /\ LET buffer == FileRead(Bytes, cursor, PrefixLen)
       IN  /\ cursor' = buffer.cursor
           /\ IF IsEof(buffer.data)
              THEN /\ pc' = [pc EXCEPT ![t] = "done"]
                   /\ Release(t)
                   /\ UNCHANGED buf
              ELSE IF Len(buffer.data) # PrefixLen
              THEN /\ pc' = [pc EXCEPT ![t] = "failed"]
                   /\ Release(t)
                   /\ UNCHANGED buf
              ELSE /\ pc' = [pc EXCEPT ![t] = "header"]
                   /\ buf' = [buf EXCEPT ![t] =
                                 [offsets |-> (buffer.from + 1)..buffer.cursor,
                                  header_length |-> Unpack(buffer.data),
                                  datasize |-> 0]]
                   /\ UNCHANGED lock
    /\ UNCHANGED <<quiet, delivered>>

\* header.ParseFromString(self._file.read(header_length))
ReadHeader(t) ==
    /\ pc[t] = "header"
    /\ LET hdata == FileRead(Bytes, cursor, buf[t].header_length)
           parsed == ParseBlobHeader(hdata.data, buf[t].header_length)
       IN  /\ cursor' = hdata.cursor
           /\ IF parsed.raised # NoError
              THEN /\ pc' = [pc EXCEPT ![t] = "failed"]
                   /\ Release(t)
                   /\ UNCHANGED buf
              ELSE /\ pc' = [pc EXCEPT ![t] = "payload"]
                   /\ buf' = [buf EXCEPT ![t] =
                                 [offsets |-> @.offsets \cup (hdata.from + 1)..hdata.cursor,
                                  header_length |-> @.header_length,
                                  datasize |-> parsed.datasize]]
                   /\ UNCHANGED lock
    /\ UNCHANGED <<quiet, delivered>>

\* payload.ParseFromString(self._file.read(header.datasize)), zlib.decompress,
\* the end of the with block and yield primitive_block
ReadPayload(t) ==
    /\ pc[t] = "payload"
    /\ LET pdata == FileRead(Bytes, cursor, buf[t].datasize)
           parsed == ParseBlob(pdata.data, buf[t].datasize)
       IN  /\ cursor' = pdata.cursor
           /\ Release(t)
           /\ buf' = [buf EXCEPT ![t] = NoBuf]
           /\ IF parsed.raised # NoError
              THEN /\ pc' = [pc EXCEPT ![t] = "failed"]
                   /\ UNCHANGED delivered
              ELSE /\ pc' = [pc EXCEPT ![t] = "next"]
                   /\ delivered' = [delivered EXCEPT ![t] = Append(@,
                          [block |-> parsed.block,
                           offsets |-> buf[t].offsets \cup (pdata.from + 1)..pdata.cursor])]
    /\ UNCHANGED quiet

NextThreads ==
    \/ \E t \in Consumers : Acquire(t)
    \/ \E t \in Consumers : ReadPrefix(t)
    \/ \E t \in Consumers : ReadHeader(t)
    \/ \E t \in Consumers : ReadPayload(t)

SpecThreads == InitThreads /\ [][NextThreads]_vars

(************ StreetViewMetadataDownloader, StreetViewImageDownloader *********)
\* the bounds of this part: the threads download() starts (num_workers, which
\* is max(10, multiprocessing.cpu_count() * 2) on a machine) and the rows of
\* its input
DownloadThreads == 2
MaxPoints == 2

Threads == 1..DownloadThreads

\* a missing value of a data frame
NA == "NA"

\* the rows a thread can put for one point: a panorama with its date, the same
\* panorama without a date, another panorama, and no panorama
Rows ==
    {[pano_id |-> "p1", date |-> "d1"], [pano_id |-> "p1", date |-> NA],
     [pano_id |-> "p2", date |-> "d2"], [pano_id |-> NA, date |-> NA]}

\* the order of the statements of download() that the threads can observe:
\* as in the source but for output_queue, which is drained before the joins
NextStepDrainBeforeJoin(kind, step) ==
    CASE step = "start" -> "put"
      [] step = "put" -> "wait"
      [] step = "wait" -> "shutdown"
      [] step = "shutdown" -> IF kind = "metadata" THEN "drain" ELSE "join"
      [] step = "drain" -> "join"
      [] step = "join" -> IF kind = "metadata" THEN "concat" ELSE "returned"
      [] step = "concat" -> "returned"

\* the order of the statements of download(): the threads are created and
\* started, the parts are put, input_queue.join(), shutdown.set() for every
\* thread, join() for every thread; the metadata downloader then drains
\* output_queue and builds the data frame it returns
NextStep(kind, step) ==
    CASE step = "start" -> "put"
      [] step = "put" -> "wait"
      [] step = "wait" -> "shutdown"
      [] step = "shutdown" -> "join"
      [] step = "join" -> IF kind = "metadata" THEN "drain" ELSE "returned"
      [] step = "drain" -> "concat"
      [] step = "concat" -> "returned"

\* DataFrame.dropna(): the rows without a missing value
dropna(rows) == SelectSeq(rows, LAMBDA r : r.pano_id # NA /\ r.date # NA)

\* DataFrame.drop_duplicates(["pano_id"]): the first row of every pano_id
RECURSIVE drop_duplicates(_)
drop_duplicates(rows) ==
    IF Len(rows) = 0 THEN <<>>
    ELSE LET front == drop_duplicates(SubSeq(rows, 1, Len(rows) - 1))
             last == rows[Len(rows)]
         IN  IF \E i \in 1..Len(front) : front[i].pano_id = last.pano_id
             THEN front
             ELSE Append(front, last)

\* lines 73-77 of the metadata downloader: pandas.concat refuses an empty list
Concatenated(frames) ==
    IF Len(frames) = 0
    THEN [raised |-> "ValueError", value |-> <<>>]
    ELSE [raised |-> NoError, value |-> drop_duplicates(dropna(Concat(frames)))]

NewThread == [pc |-> "idle", shutdown |-> FALSE, part |-> <<>>, put |-> FALSE,
              done |-> FALSE]

\* a call of download() on an input of up to MaxPoints rows
InitDownload ==
    /\ NoFile /\ NoReader /\ NoThreads
    /\ arg \in {[fn |-> "download", points |-> [i \in 1..n |-> i]] : n \in 0..MaxPoints}
    /\ ret = [fn |-> "none"]
    /\ downloader \in {"metadata", "image"}
    /\ main = "start"
    /\ parts_put = 0
    /\ input_queue = <<>> /\ unfinished_tasks = 0 /\ output_queue = <<>>
    /\ worker = <<>> /\ joined = {} /\ results_put = <<>>
    /\ streetview_metadata = <<>> /\ returned = None

downloadQuiet == <<fileVars, readerVars, accessVars, scopeVars, genVars, threadVars,
                   pureVars, downloader>>

\* the threads are created with the queues and started
StartThreads ==
    /\ main = "start"
    /\ worker' = [t \in Threads |-> NewThread]
    /\ main' = NextStep(downloader, "start")
    /\ UNCHANGED <<downloadQuiet, parts_put, input_queue, unfinished_tasks,
                   output_queue, joined, results_put, streetview_metadata, returned>>

\* for part_of_df in numpy.array_split(points, num_workers): input_queue.put(..)
PutPart ==
    /\ main = "put"
    /\ parts_put < DownloadThreads
    /\ input_queue' = Append(input_queue,
                             array_split(arg.points, DownloadThreads)[parts_put + 1])
    /\ unfinished_tasks' = unfinished_tasks + 1
    /\ parts_put' = parts_put + 1
    /\ main' = IF parts_put + 1 = DownloadThreads THEN NextStep(downloader, "put")
               ELSE main
    /\ UNCHANGED <<downloadQuiet, output_queue, worker, joined, results_put,
                   streetview_metadata, returned>>

\* input_queue.join(): returns when every part put has been marked task_done
InputQueueJoin ==
    /\ main = "wait"
    /\ unfinished_tasks = 0
    /\ main' = NextStep(downloader, "wait")
    /\ UNCHANGED <<downloadQuiet, parts_put, input_queue, unfinished_tasks,
                   output_queue, worker, joined, results_put, streetview_metadata,
                   returned>>

\* for thread in threads: thread.shutdown.set()
SetShutdown ==
    /\ main = "shutdown"
    /\ \E t \in Threads :
           /\ ~worker[t].shutdown
           /\ \A u \in 1..(t - 1) : worker[u].shutdown
           /\ worker' = [worker EXCEPT ![t].shutdown = TRUE]
           /\ main' = IF t = DownloadThreads THEN NextStep(downloader, "shutdown")
                      ELSE main
    /\ UNCHANGED <<downloadQuiet, parts_put, input_queue, unfinished_tasks,
                   output_queue, joined, results_put, streetview_metadata, returned>>

\* for thread in threads: thread.join(), which returns once the thread has ended
JoinThread ==
    /\ main = "join"
    /\ \E t \in Threads \ joined :
           /\ 1..(t - 1) \subseteq joined
           /\ worker[t].pc = "terminated"
           /\ joined' = joined \cup {t}
           /\ main' = IF t = DownloadThreads THEN NextStep(downloader, "join")
                      ELSE main
    /\ UNCHANGED <<downloadQuiet, parts_put, input_queue, unfinished_tasks,
                   output_queue, worker, results_put, streetview_metadata, returned>>

\* one pass of the while loop around output_queue.get(block=False)
Drain ==
    /\ main = "drain"
    /\ IF Len(output_queue) > 0
       THEN /\ streetview_metadata' = Append(streetview_metadata, Head(output_queue))
            /\ output_queue' = Tail(output_queue)
            /\ UNCHANGED main
       ELSE /\ main' = NextStep(downloader, "drain")
            /\ UNCHANGED <<streetview_metadata, output_queue>>
    /\ UNCHANGED <<downloadQuiet, parts_put, input_queue, unfinished_tasks, worker,
                   joined, results_put, returned>>

\* pandas.concat and the selection of the rows that are returned
Concatenate ==
    /\ main = "concat"
    /\ \E made \in {Concatenated(streetview_metadata)} :
           IF made.raised # NoError
           THEN /\ main' = "raised"
                /\ UNCHANGED returned
           ELSE /\ main' = NextStep(downloader, "concat")
                /\ returned' = made.value
    /\ UNCHANGED <<downloadQuiet, parts_put, input_queue, unfinished_tasks,
                   output_queue, worker, joined, results_put, streetview_metadata>>

\* a thread takes a part from input_queue
Get(t) ==
    /\ worker[t].pc = "idle"
    /\ Len(input_queue) > 0
    /\ worker' = [worker EXCEPT ![t] = [pc |-> "working", shutdown |-> @.shutdown,
                                        part |-> Head(input_queue), put |-> FALSE,
                                        done |-> FALSE]]
    /\ input_queue' = Tail(input_queue)
    /\ UNCHANGED <<downloadQuiet, main, parts_put, unfinished_tasks, output_queue,
                   joined, results_put, streetview_metadata, returned>>

\* a thread of the metadata downloader puts the rows it found for its part
PutResult(t) ==
    /\ downloader = "metadata"
    /\ worker[t].pc = "working"
    /\ ~worker[t].put
    /\ \E frame \in [1..Len(worker[t].part) -> Rows] :
           /\ output_queue' = Append(output_queue, frame)
           /\ results_put' = Append(results_put, frame)
    /\ worker' = [worker EXCEPT ![t].put = TRUE]
    /\ UNCHANGED <<downloadQuiet, main, parts_put, input_queue, unfinished_tasks,
                   joined, streetview_metadata, returned>>

\* input_queue.task_done() for the part the thread took
TaskDone(t) ==
    /\ worker[t].pc = "working"
    /\ ~worker[t].done
    /\ unfinished_tasks' = unfinished_tasks - 1
    /\ worker' = [worker EXCEPT ![t].done = TRUE]
    /\ UNCHANGED <<downloadQuiet, main, parts_put, input_queue, output_queue,
                   joined, results_put, streetview_metadata, returned>>

\* the thread is through with its part and looks for the next one
Loop(t) ==
    /\ worker[t].pc = "working"
    /\ worker[t].done
    /\ worker' = [worker EXCEPT ![t] = [pc |-> "idle", shutdown |-> @.shutdown,
                                        part |-> <<>>, put |-> FALSE, done |-> FALSE]]
    /\ UNCHANGED <<downloadQuiet, main, parts_put, input_queue, unfinished_tasks,
                   output_queue, joined, results_put, streetview_metadata, returned>>

\* a thread that finds its shutdown event set ends
Terminate(t) ==
    /\ worker[t].pc = "idle"
    /\ worker[t].shutdown
    /\ worker' = [worker EXCEPT ![t].pc = "terminated"]
    /\ UNCHANGED <<downloadQuiet, main, parts_put, input_queue, unfinished_tasks,
                   output_queue, joined, results_put, streetview_metadata, returned>>

\* an exception ends a thread while it works on a part
Fail(t) ==
    /\ worker[t].pc = "working"
    /\ worker' = [worker EXCEPT ![t].pc = "terminated"]
    /\ UNCHANGED <<downloadQuiet, main, parts_put, input_queue, unfinished_tasks,
                   output_queue, joined, results_put, streetview_metadata, returned>>

NextDownload ==
    \/ StartThreads
    \/ PutPart
    \/ InputQueueJoin
    \/ SetShutdown
    \/ JoinThread
    \/ Drain
    \/ Concatenate
    \/ \E t \in DOMAIN worker : Get(t)
    \/ \E t \in DOMAIN worker : PutResult(t)
    \/ \E t \in DOMAIN worker : TaskDone(t)
    \/ \E t \in DOMAIN worker : Loop(t)
    \/ \E t \in DOMAIN worker : Terminate(t)
    \/ \E t \in DOMAIN worker : Fail(t)

SpecDownload == InitDownload /\ [][NextDownload]_vars

(******************************** the claims *******************************)
\* C1: in _geometries_for_ways, a way of which fewer than two node ids remain
\* after dropping the ids absent from the mapping contributes no output geometry:
\* every way kept for the coordinate lookup and the geometry construction, and
\* every geometry returned, has at least two ids (one id left or none alike).
C1_ShortWaysContributeNothing ==
    ret.fn = "_geometries_for_ways" =>
        /\ \A k \in 1..Len(ret.kept) : Len(ret.kept[k]) >= 2
        /\ \A k \in 1..Len(ret.value) : Len(ret.value[k]) >= 2

\* C2: for every primitive block (with the key "highway" and at least one
\* primitive group) and every clip polygon, _parse_primitive_block returns a node
\* mapping, and every (lon, lat) in it lies inside the clip polygon.
C2_ReturnedNodesInsidePolygon ==
    (/\ ret.fn = "_parse_primitive_block"
     /\ index(arg.block.stringtable, "highway") # -1
     /\ Len(arg.block.primitive_group) >= 1) =>
        /\ ret.raised = NoError
        /\ \A id \in DOMAIN ret.nodes : contains(arg.polygon, ret.nodes[id])

\* the ways of the input that carry the index of "highway" among their keys
HighwayWays == {i \in 1..Len(arg.ways) : \E k \in 1..Len(arg.ways[i].keys) :
                                             arg.ways[i].keys[k] = arg.index}

\* C3: a way appears in the candidate list returned by _parse_ways only if its
\* key indices contain the string-table index of "highway": the list has one
\* entry per such way, each the node ids of one of them, whatever the refs of
\* the other ways.
C3_CandidatesHaveHighway ==
    ret.fn = "_parse_ways" =>
        /\ Len(ret.value) = Cardinality(HighwayWays)
        /\ \A j \in 1..Len(ret.value) :
               \E i \in HighwayWays : ret.value[j] = cumsum(arg.ways[i].refs)

\* a call that was given a way with and a way without the index, and kept one
C3_Witness ==
    /\ ret.fn = "_parse_ways"
    /\ Len(arg.ways) = 2
    /\ Cardinality(HighwayWays) = 1
    /\ Len(ret.value) = 1

\* C4: when the string table of a primitive block does not hold "highway",
\* _parse_primitive_block does not raise and returns an empty candidate-way list.
C4_MissingHighwayYieldsNoWays ==
    (/\ ret.fn = "_parse_primitive_block"
     /\ \A i \in 1..Len(arg.block.stringtable) : arg.block.stringtable[i] # "highway") =>
        /\ ret.raised = NoError
        /\ ret.ways = <<>>

\* the file holds all of its blocks; the position of its first primitive block
Intact == fileLen = Len(FileBytes(file))
FirstPrimitive == BlockEnd(file, 1)

\* the geometries of a list as an unordered collection
BagOf(geoms) == [g \in Range(geoms) |-> Cardinality({i \in 1..Len(geoms) : geoms[i] = g})]

\* C5: for a fixed file and polygon, street_network yields the same set of
\* geometries (an unordered collection of vertex sequences) for every worker
\* count: an access that computes over the whole intact file returns a street
\* network, and the computation with any other pool size returns the same bag.
C5_SameGeometriesForEveryWorkerCount ==
    \A k \in 1..Len(accesses) :
        (/\ Intact /\ Len(file) >= 2
         /\ ~accesses[k].cached /\ accesses[k].start = FirstPrimitive) =>
            /\ accesses[k].raised = NoError
            /\ \A n \in 1..MaxWorkers :
                   \A out \in Compute(file, [raised |-> NoError, blocks |-> accesses[k].read],
                                      clip_polygon, n) :
                       /\ out.raised = NoError
                       /\ BagOf(out.value) = BagOf(accesses[k].value)

\* C6: on one reader of an intact file, the street network is computed at most
\* once: every access after the first returns the cached result of the first,
\* starts no worker pool and leaves the file cursor where it was.
C6_ComputedOnceThenCached ==
    Intact =>
        /\ Cardinality({k \in 1..Len(accesses) : accesses[k].pool}) <= 1
        /\ \A k \in 2..Len(accesses) :
               /\ accesses[k].cached
               /\ accesses[k].read = <<>>
               /\ accesses[k].raised = NoError
               /\ accesses[k].value = accesses[1].value

\* C7: after an access to street_network that aborted with an error nothing is
\* cached, and the next access computes again over every primitive block of the
\* file, reading from the first primitive block on.
C7_RetryStartsAtFirstPrimitiveBlock ==
    \A k \in 2..Len(accesses) :
        accesses[k - 1].raised # NoError =>
            /\ ~accesses[k].cached
            /\ accesses[k].start = FirstPrimitive

\* C8: a file cut short inside a block is never taken for a file that ended:
\* no generator of primitive_blocks ends normally on it and no access to
\* street_network gets past its read phase or caches a result; the end of the
\* file is found by a read of zero bytes at a block boundary only.
C8_TruncationNeverEndOfFile ==
    (fileLen \notin BlockBoundaries(file)) =>
        /\ gen # "exhausted"
        /\ ~cache.set
        /\ \A k \in 1..Len(accesses) :
               /\ accesses[k].phase = "read"
               /\ accesses[k].raised \notin {NoError, "StopIteration"}

\* C9: once the with statement around the reader is left (after street_network
\* succeeded or failed, or after the iteration over primitive_blocks was
\* abandoned) the file handle is closed, and leaving raised no error.
C9_HandleReleasedOnLeavingScope ==
    scope = "left" => (~fileOpen /\ scopeRaised = NoError)

\* C10: when several consumers pull blocks from one reader at the same time,
\* the read of a block is atomic: at most one consumer is between its first and
\* its last read of a block, every delivered block is made of exactly the bytes
\* of one primitive block of the file, and no two deliveries share a block or a
\* byte.
C10_BlockReadsAreAtomic ==
    /\ Cardinality({t \in DOMAIN pc : pc[t] \in {"prefix", "header", "payload"}}) <= 1
    /\ \A t \in DOMAIN delivered : \A i \in 1..Len(delivered[t]) :
           LET d == delivered[t][i]
           IN  /\ d.block \in 2..Len(file)
               /\ d.offsets = (BlockEnd(file, d.block - 1) + 1)..BlockEnd(file, d.block)
    /\ \A t1, t2 \in DOMAIN delivered :
           \A i \in 1..Len(delivered[t1]) : \A j \in 1..Len(delivered[t2]) :
               (t1 # t2 \/ i # j) =>
                   /\ delivered[t1][i].block # delivered[t2][j].block
                   /\ delivered[t1][i].offsets \cap delivered[t2][j].offsets = {}

\* two consumers were each given a block while the other was iterating too
C10_Witness ==
    /\ DOMAIN delivered = Consumers
    /\ \E t1, t2 \in Consumers :
           /\ t1 # t2
           /\ Len(delivered[t1]) >= 1
           /\ Len(delivered[t2]) >= 1
           /\ pc[t1] = "next" /\ pc[t2] = "prefix"

\* the primitive blocks of the file in their on-disk order (block 1 is the header)
PrimitiveBlockNumbers == [i \in 1..(Len(file) - 1) |-> i + 1]

\* C11: in a street_network computation on a well-formed file the blocks are
\* read in on-disk order, every primitive block of the file is decoded by
\* exactly one phase-1 task, none skipped and none twice, and the i-th collected
\* (node mapping, candidate ways) pair is the result of the i-th primitive block.
C11_EveryBlockDecodedOnceInOrder ==
    \A k \in 1..Len(accesses) :
        (Intact /\ ~accesses[k].cached) =>
            /\ accesses[k].read = PrimitiveBlockNumbers
            /\ accesses[k].tasks = Len(PrimitiveBlockNumbers)
            /\ Len(accesses[k].collected) = Len(PrimitiveBlockNumbers)
            /\ \A i \in 1..Len(accesses[k].collected) :
                   LET task == _parse_primitive_block(file[i + 1].content, clip_polygon)
                   IN  /\ task.raised = NoError
                       /\ accesses[k].collected[i].nodes = task.nodes
                       /\ accesses[k].collected[i].ways = task.ways

\* the ids of a way that are keys of the node mapping, in the way's order
Surviving(way, nodes) == SelectSeq(way, LAMBDA node : node \in DOMAIN nodes.map)

\* the ways of the input that keep at least two ids, each as the coordinates of
\* its surviving ids in their order
TruncatedLines(ways, nodes) ==
    LET long == SelectSeq([i \in 1..Len(ways) |-> Surviving(ways[i], nodes)],
                          LAMBDA way : Len(way) >= 2)
    IN  [i \in 1..Len(long) |-> [j \in 1..Len(long[i]) |-> nodes.map[long[i][j]]]]

\* C12: in _geometries_for_ways every way that keeps at least two node ids
\* present in the node mapping yields exactly one line geometry, whose vertices
\* are the coordinates of those ids in the order of the way; nothing else is
\* returned, so every geometry has at least two vertices.
C12_OneTruncatedLinePerLongWay ==
    ret.fn = "_geometries_for_ways" =>
        /\ ret.raised = NoError
        /\ ret.value = TruncatedLines(arg.ways, arg.nodes)
        /\ \A k \in 1..Len(ret.value) : Len(ret.value[k]) >= 2

\* the sum of the first n elements of a sequence
RECURSIVE SumTo(_, _)
SumTo(s, n) == IF n = 0 THEN 0 ELSE SumTo(s, n - 1) + s[n]

\* delta encoding: the first value, then the successive differences
Differences(s) == [i \in 1..Len(s) |-> IF i = 1 THEN s[1] ELSE s[i] - s[i - 1]]

RunningSums(deltas, decoded) ==
    /\ Len(decoded) = Len(deltas)
    /\ \A i \in 1..Len(deltas) : decoded[i] = SumTo(deltas, i)
    /\ Differences(decoded) = deltas

\* C13: dense-node decoding is a running cumulative sum: for the id, lon and lat
\* delta arrays the i-th decoded raw value is the sum of the deltas up to i, and
\* the successive differences of the decoded values give the delta arrays back.
C13_DenseDecodingIsCumulativeSum ==
    ret.fn = "_parse_dense_nodes" =>
        /\ RunningSums(arg.dense.id, ret.decoded.id)
        /\ RunningSums(arg.dense.lon, ret.decoded.lon)
        /\ RunningSums(arg.dense.lat, ret.decoded.lat)
        /\ \A i \in 1..Len(ret.rows) :
               /\ ret.rows[i].id = ret.decoded.id[i]
               /\ ret.rows[i].lon = ret.decoded.lon[i] * arg.granularity + arg.lon_offset
               /\ ret.rows[i].lat = ret.decoded.lat[i] * arg.granularity + arg.lat_offset

\* a record of three nodes with a negative delta was decoded
C13_Witness ==
    /\ ret.fn = "_parse_dense_nodes"
    /\ arg.dense.id = <<2, 2, -1>>
    /\ ret.decoded.id = <<2, 4, 3>>
    /\ arg.dense.lon = <<2, -1, 2>>
    /\ ret.decoded.lon = <<2, 1, 3>>

\* C14: StreetNetworkDownloader.street_network(polygon) returns the clipped
\* street network in both paths: on a cache hit the entry under str(polygon),
\* without a download; on a miss it downloads, writes the clipped result to the
\* cache under str(polygon), removes the temporary file and returns the result.
C14_DownloaderReturnsClippedNetwork ==
    ret.fn = "StreetNetworkDownloader.street_network" =>
        /\ ret.raised = NoError
        /\ IF str(arg.polygon) \in DOMAIN arg.cache
           THEN /\ ret.value = arg.cache[str(arg.polygon)]
                /\ ~ret.downloaded
                /\ ret.cache = arg.cache
           ELSE /\ ret.downloaded
                /\ str(arg.polygon) \in DOMAIN ret.cache
                /\ ret.value = ret.cache[str(arg.polygon)]
                /\ ret.temp_files = {}

\* C15: points_on_street_network(extent, distance_between_points) interpolates
\* with the caller's distance: the distance passed to the _interpolate_along_lines
\* task of every shard of the street network is distance_between_points.
C15_TasksGetCallersDistance ==
    ret.fn = "points_on_street_network" =>
        \A k \in 1..Len(ret.tasks) : ret.tasks[k].distance = arg.distance_between_points

\* the in-polygon rows (id, lon, lat) of one primitive group of a block, dense
\* and individually encoded
RowsInside(block, group, polygon) ==
    _clip_nodes_to_polygons(
        DenseRows(group.dense, block.granularity, block.lon_offset, block.lat_offset)
        \o group.nodes, polygon)

\* C16: the pair returned by _parse_primitive_block covers the whole block: its
\* node mapping holds the in-polygon nodes of every primitive group and its way
\* list the highway ways of every primitive group, in the order of the groups; a
\* block without primitive groups gives an empty mapping and an empty list
\* without an error.
C16_PairCoversEveryGroup ==
    (/\ ret.fn = "_parse_primitive_block"
     /\ index(arg.block.stringtable, "highway") # -1) =>
        LET groups == arg.block.primitive_group
            highway == index(arg.block.stringtable, "highway")
            rows == Concat([g \in 1..Len(groups) |->
                               RowsInside(arg.block, groups[g], arg.polygon)])
        IN  /\ ret.raised = NoError
            /\ DOMAIN ret.nodes = {rows[i].id : i \in 1..Len(rows)}
            /\ \A id \in DOMAIN ret.nodes :
                   \E i \in 1..Len(rows) :
                       rows[i].id = id /\ ret.nodes[id] = <<rows[i].lon, rows[i].lat>>
            /\ ret.ways = Concat([g \in 1..Len(groups) |->
                                     _parse_ways(groups[g].ways, arg.polygon, highway)])

\* the candidate ways of all blocks, pooled in the order of the blocks
PooledWays(parsed_data) == Concat([i \in 1..Len(parsed_data) |-> parsed_data[i].ways])

\* the node ids that are a key of the mapping of some block
KnownIds(parsed_data) == UNION {DOMAIN parsed_data[i].nodes : i \in 1..Len(parsed_data)}

\* what step 1 of _geometries_for_ways left of the ways, over all tasks of phase 2
ExistingWays(made) == Concat([k \in 1..Len(made) |-> made[k].existing])

\* C17: in phase 2 a node id of a candidate way is resolved against the node
\* mappings of all blocks: an id that is a key of some block's mapping is found,
\* also when its node was decoded in another block than the way; step 1 of
\* _geometries_for_ways never drops it.
C17_IdsResolvedAcrossBlocks ==
    ret.fn = "phase2" =>
        LET pooled == PooledWays(arg.parsed_data)
            existing == ExistingWays(ret.made)
        IN  \A i \in 1..Len(pooled) : \A j \in 1..Len(pooled[i]) :
                pooled[i][j] \in KnownIds(arg.parsed_data) =>
                    \E k \in 1..Len(existing) : pooled[i][j] \in Range(existing[k])

\* C18: phase 2 splits the pooled list of the candidate ways of all blocks into
\* num_workers contiguous shards: the shards, put one after the other, are the
\* pooled ways, each way (one sequence of node ids) in exactly one shard, none
\* lost and none twice; and the result is the concatenation of the geometry
\* lists of all shards.
C18_ShardsPartitionPooledWays ==
    ret.fn = "phase2" =>
        /\ Len(ret.shards) = arg.workers
        /\ Concat(ret.shards) = PooledWays(arg.parsed_data)
        /\ ret.raised = NoError
        /\ ret.value = Concat([k \in 1..Len(ret.made) |-> ret.made[k].value])

\* C19: the header block is read once, at construction, and stored in
\* self.header; primitive_blocks never yields it, the first block it yields is
\* the second block of the file, and no operation moves the cursor back to the
\* header once the reader is constructed.
C19_HeaderReadOnceNeverYielded ==
    (reader # "none" /\ initRaised = NoError) =>
        /\ header = 1
        /\ cursor >= FirstPrimitive
        /\ \A i \in 1..Len(yielded) : yielded[i] # 1
        /\ (yielded # <<>> /\ accesses = <<>>) => yielded[1] = 2
        /\ \A k \in 1..Len(accesses) :
               /\ accesses[k].start >= FirstPrimitive
               /\ \A i \in 1..Len(accesses[k].read) : accesses[k].read[i] # 1
               /\ (k = 1 /\ yielded = <<>> /\ accesses[k].read # <<>>) =>
                      accesses[k].read[1] = 2

\* a constructed reader whose generator yielded the second block of a file of
\* three blocks, and whose street_network was accessed afterwards
C19_Witness ==
    /\ reader = "ready"
    /\ Len(file) = 3
    /\ header = 1
    /\ yielded = <<2>>
    /\ Len(accesses) = 1
    /\ accesses[1].start = BlockEnd(file, 2)

\* on a well-formed file no read of a block fails: no generator of
\* primitive_blocks raises, a generator that ended did so at the end of the file
\* with every block it was asked for yielded, the lock is free, and no
\* street_network access fails while its blocks are read
C20_EndOfFileIsNormal ==
    (Intact /\ reader = "ready") =>
        /\ gen # "failed"
        /\ lock = NoThread
        /\ gen = "exhausted" => cursor = fileLen
        /\ \A k \in 1..Len(accesses) : accesses[k].phase # "read"
        /\ accesses # <<>> => cursor = fileLen

\* C20: on a well-formed file the iteration over primitive_blocks terminates:
\* every yield moves the cursor forward, and a caller that keeps asking for the
\* next block gets, after the last primitive block, a generator that ends
\* normally, without an error (also when street_network feeds the worker pool
\* from it) and with the lock released.
C20_IterationTerminatesNormally ==
    /\ []C20_EndOfFileIsNormal
    /\ [][yielded' # yielded => cursor' > cursor]_vars
    /\ (Intact /\ gen = "active") ~> (gen \in {"exhausted", "abandoned"})

\* the generator yielded both primitive blocks of a well-formed file and then ended
C20_Witness ==
    /\ Intact
    /\ Len(file) = 3
    /\ yielded = <<2, 3>>
    /\ gen = "exhausted"
    /\ lock = NoThread

(* C21: a fault of a worker task in phase 1 (_parse_primitive_block) or in
   phase 2 (_geometries_for_ways) of street_network leaves street_network as
   an error of the caller, one of the exceptions the failed tasks raised; every
   block was given to one task, nothing of the tasks that succeeded is
   returned, and a street network is returned only when no task failed, then
   the concatenation of the results of all shards. *)
Faults(results) == {results[i].raised : i \in 1..Len(results)} \ {NoError}

C21_WorkerFaultsPropagate ==
    ret.fn = "street_network" =>
        /\ Faults(arg.parsed_data) # {} =>
               /\ ret.raised \in Faults(arg.parsed_data)
               /\ ret.phase = "phase1"
               /\ ret.tasks = Len(arg.parsed_data)
               /\ ret.made = <<>>
               /\ ret.value = <<>>
        /\ Faults(ret.made) # {} =>
               /\ ret.raised \in Faults(ret.made)
               /\ ret.collected = arg.parsed_data
               /\ ret.value = <<>>
        /\ ret.raised = NoError =>
               /\ Faults(arg.parsed_data) = {}
               /\ Len(ret.made) = arg.workers
               /\ Faults(ret.made) = {}
               /\ ret.value = Concat([k \in 1..Len(ret.made) |-> ret.made[k].value])

\* a phase-1 task failed next to one that returned its pair, and the access raised
C21_Witness ==
    /\ ret.fn = "street_network"
    /\ \E i, j \in 1..Len(arg.parsed_data) :
           /\ arg.parsed_data[i].raised = NoError
           /\ Len(arg.parsed_data[i].ways) > 0
           /\ arg.parsed_data[j].raised # NoError
    /\ ret.raised # NoError

\* the ids of the rows of a data frame
Ids(rows) == {rows[i].id : i \in 1..Len(rows)}

(* C22: for a block of one primitive group in which a node id occurs both in the
   dense arrays and as an individually encoded node, both inside the polygon,
   _parse_primitive_block returns a node mapping that holds the coordinate of
   the individually encoded node for that id, and for an id of one
   representation only the coordinate of that representation. *)
C22_IndividualNodeOverwritesDense ==
    (/\ ret.fn = "_parse_primitive_block"
     /\ index(arg.block.stringtable, "highway") # -1
     /\ Len(arg.block.primitive_group) = 1) =>
        \A dense \in {_clip_nodes_to_polygons(
                          DenseRows(arg.block.primitive_group[1].dense,
                                    arg.block.granularity, arg.block.lon_offset,
                                    arg.block.lat_offset), arg.polygon)} :
        \A plain \in {_clip_nodes_to_polygons(arg.block.primitive_group[1].nodes,
                                              arg.polygon)} :
            Ids(dense) \cap Ids(plain) # {} =>
                /\ ret.raised = NoError
                /\ DOMAIN ret.nodes = Ids(dense) \cup Ids(plain)
                /\ \A i \in 1..Len(plain) :
                       ret.nodes[plain[i].id] = <<plain[i].lon, plain[i].lat>>
                /\ \A i \in 1..Len(dense) :
                       dense[i].id \notin Ids(plain) =>
                           ret.nodes[dense[i].id] = <<dense[i].lon, dense[i].lat>>

\* the position in the primitive group of the j-th way that carries the index
NthHighwayWay(j) ==
    CHOOSE i \in HighwayWays : Cardinality({k \in HighwayWays : k < i}) = j - 1

(* C23: the j-th node-id sequence returned by _parse_ways belongs to the j-th
   retained way of the primitive group: it has as many elements as that way
   has delta-encoded refs, and its i-th element is the sum of the refs up to
   the i-th. *)
C23_WayRefsAreRunningSums ==
    ret.fn = "_parse_ways" =>
        /\ Len(ret.value) = Cardinality(HighwayWays)
        /\ \A j \in 1..Len(ret.value) :
               \A refs \in {arg.ways[NthHighwayWay(j)].refs} :
                   /\ Len(ret.value[j]) = Len(refs)
                   /\ \A i \in 1..Len(refs) : ret.value[j][i] = SumTo(refs, i)

\* two retained ways of different refs, the first with a negative delta
C23_Witness ==
    /\ ret.fn = "_parse_ways"
    /\ Len(ret.value) = 2
    /\ ret.value[1] # ret.value[2]
    /\ \E i \in 1..Len(arg.ways[NthHighwayWay(1)].refs) :
           arg.ways[NthHighwayWay(1)].refs[i] < 0

\* the caller of the metadata download() has begun to take results
Draining ==
    \/ main \in {"drain", "concat", "returned", "raised"}
    \/ Len(streetview_metadata) > 0

(* C24: in both download() methods a thread's shutdown event is set only when
   every part has been put on input_queue and marked task_done; a thread's
   join() returns only when every thread's shutdown event is set; the metadata
   downloader takes results from output_queue only when every thread has been
   joined and has ended, so the list it drains holds every result a thread has
   put, in the order they were put, and every row without a missing value that
   a thread has put is in the returned data frame by its pano_id. *)
C24_ShutdownAfterWorkDrainAfterJoin ==
    /\ (\E t \in DOMAIN worker : worker[t].shutdown) =>
           /\ parts_put = DownloadThreads
           /\ Len(input_queue) = 0
           /\ unfinished_tasks = 0
    /\ joined # {} => \A t \in DOMAIN worker : worker[t].shutdown
    /\ (downloader = "metadata" /\ Draining) =>
           /\ joined = Threads
           /\ \A t \in Threads : worker[t].pc = "terminated"
    /\ (downloader = "metadata" /\ main \in {"concat", "returned", "raised"}) =>
           /\ Len(output_queue) = 0
           /\ streetview_metadata = results_put
    /\ (downloader = "metadata" /\ main = "returned") =>
           \A k \in 1..Len(results_put) : \A i \in 1..Len(results_put[k]) :
               \A row \in {results_put[k][i]} :
                   (row.pano_id # NA /\ row.date # NA) =>
                       \E j \in 1..Len(returned) : returned[j].pano_id = row.pano_id

\* the metadata download() has returned after every thread had put a result,
\* among them a row that was dropped
C24_Witness ==
    /\ downloader = "metadata"
    /\ main = "returned"
    /\ Len(results_put) = DownloadThreads
    /\ Len(returned) >= 1
    /\ Len(Concat(results_put)) > Len(returned)

====
